---------------------------- MODULE Spec2Model ----------------------------
(***************************************************************************)
(* Freight quoting service (src/app.py): order parsing, geocoding with     *)
(* capital fallback, stock-aware selection of the nearest distribution     *)
(* centre (CD), pricing and lead time.                                     *)
(*                                                                         *)
(* Number representation.  Python floats are modelled as fixed-point       *)
(* integers; IEEE rounding error, NaN and infinities are not represented.  *)
(*   degrees            1e-4 degree   (-27.3636  -> -273636)               *)
(*   radians, sin, cos  1e-4          (scale FP)                           *)
(*   distance           0.1 km                                             *)
(*   parsed decimals    1e-2          (3.5 -> 350)                         *)
(*   money              cents; rate per km in tenths (7.0 -> 70)           *)
(* Strings that the code inspects character by character (the order        *)
(* encoding) are sequences of one-character strings.                       *)
(***************************************************************************)
EXTENDS Integers, Sequences, FiniteSets, TLC

VARIABLES
    pc,                 \* position of the request / of the function under study
    chamadas,           \* external HTTP calls issued so far, in order
    tray_url_ok,        \* TRAY_API_URL is a non-empty string
    tray_token_ok,      \* TRAY_API_TOKEN is a non-empty string
    \* ---- verificar_estoque_tray (one call studied in isolation)
    est_cd,             \* cd_codigo argument
    est_resposta,       \* what the inventory service answered
    est_retorno,        \* return value
    \* ---- selecionar_melhor_cd
    lat_destino,
    lon_destino,
    produtos,           \* sequence of parsed line items
    distancias,         \* ranking built by calcular_distancias_cds
    d_idx,              \* position of the outer loop in distancias
    p_idx,              \* position of the inner loop in produtos
    verificacoes,       \* stock checks answered so far, in order
    resultado_cd,       \* value returned by selecionar_melhor_cd
    \* ---- buscar_coordenadas_ibge
    cep,                \* the postal code, a sequence of characters
    municipio,          \* data['localidade']
    uf,                 \* data['uf']
    codigo_ibge,        \* municipio_encontrado['id']
    resp_viacep,        \* answers received from the three services
    resp_municipios,
    resp_coord,
    coord_destino,      \* value returned by buscar_coordenadas_ibge
    \* ---- parse_produtos_tray and calcular_frete
    prods,              \* the order encoding, a sequence of characters
    resposta,           \* what calcular_frete answered
    \* ---- calcular_valor_frete
    default_valor_km,   \* DEFAULT_VALOR_KM, in tenths
    distancia_km,       \* in 0.1 km
    peso_total,         \* in 0.01 kg
    volume_total,       \* in 0.01 m3
    valor_km,           \* the optional argument: Nenhum (None) or a rate in tenths
    valor_frete,        \* the returned amount, in cents
    \* ---- calcular_prazo_entrega
    prazo               \* the returned number of days

varsTray == <<tray_url_ok, tray_token_ok, est_cd, est_resposta, est_retorno>>

varsSel == <<lat_destino, lon_destino, produtos, distancias, d_idx, p_idx,
             verificacoes, resultado_cd>>

varsGeo == <<cep, municipio, uf, codigo_ibge, resp_viacep, resp_municipios,
             resp_coord, coord_destino>>

varsFrete == <<prods, resposta>>

varsPreco == <<default_valor_km, distancia_km, peso_total, volume_total, valor_km,
               valor_frete, prazo>>

vars == <<pc, chamadas, varsTray, varsSel, varsGeo, varsFrete, varsPreco>>

---------------------------------------------------------------------------
(* Bounds of the model *)

\* Longest order (number of line items) handed to selecionar_melhor_cd
MaxItens == 2

\* Largest number of '/'-separated items in an order encoding
MaxItensPedido == 2

---------------------------------------------------------------------------
(* Generic helpers *)

Nenhum == [tipo |-> "nenhum"]

Num(n) == [tipo |-> "num", v |-> n]

NaoNum(t) == [tipo |-> t, v |-> 0]

Bool(b) == [tipo |-> "bool", v |-> b]

SeqsAte(S, n) == UNION {[1..k -> S] : k \in 0..n}

---------------------------------------------------------------------------
(* CENTROS_DISTRIBUICAO, in dict insertion order *)

ORDEM_CDS == <<"RS", "SC", "MG", "MS", "CE">>

CENTROS_DISTRIBUICAO ==
    [RS |-> [uf |-> "RS", lat |-> -273636, lon |-> -533978, codigo_cd_tray |-> "CD_RS"],
     SC |-> [uf |-> "SC", lat |-> -263045, lon |-> -488487, codigo_cd_tray |-> "CD_SC"],
     MG |-> [uf |-> "MG", lat |-> -167350, lon |-> -438619, codigo_cd_tray |-> "CD_MG"],
     MS |-> [uf |-> "MS", lat |-> -204697, lon |-> -546201, codigo_cd_tray |-> "CD_MS"],
     CE |-> [uf |-> "CE", lat |-> -60014,  lon |-> -402925, codigo_cd_tray |-> "CD_CE"]]

CDS == {ORDEM_CDS[i] : i \in 1..Len(ORDEM_CDS)}

CODIGOS_TRAY == {CENTROS_DISTRIBUICAO[c].codigo_cd_tray : c \in CDS}

---------------------------------------------------------------------------
(* haversine, in fixed point *)

\* Scale of the fixed-point representation of radians, sines and cosines
FP == 10 ^ 4

RAIO_TERRA == 6371

FATOR_RODOVIA == 115

FMul(a, b) == (a * b) \div FP

\* math.radians: x * pi / 180, pi/180 = 0.01745
radians(d) == (d * 1745) \div 100000

\* math.sin, Taylor series to x^7
fsin(x) ==
    LET x2 == FMul(x, x)
        x3 == FMul(x2, x)
        x5 == FMul(x3, x2)
        x7 == FMul(x5, x2)
    IN  x - (x3 \div 6) + (x5 \div 120) - (x7 \div 5040)

\* math.cos, Taylor series to x^8
fcos(x) ==
    LET x2 == FMul(x, x)
        x4 == FMul(x2, x2)
        x6 == FMul(x4, x2)
        x8 == FMul(x4, x4)
    IN  FP - (x2 \div 2) + (x4 \div 24) - (x6 \div 720) + (x8 \div 40320)

\* math.asin, Taylor series to y^7
fasin(y) ==
    LET y2 == FMul(y, y)
        y3 == FMul(y2, y)
        y5 == FMul(y3, y2)
        y7 == FMul(y5, y2)
    IN  y + (y3 \div 6) + ((3 * y5) \div 40) + ((15 * y7) \div 336)

RECURSIVE RaizIter(_, _)
RaizIter(n, x) ==
    LET y == (x + n \div x) \div 2
    IN  IF y >= x THEN x ELSE RaizIter(n, y)

\* math.sqrt on the integer n: the largest r with r*r <= n
fsqrt(n) == IF n <= 0 THEN 0 ELSE RaizIter(n, n)

\* haversine(lat1, lon1, lat2, lon2) on numbers: distance in 0.1 km, road factor included
haversine(lat1, lon1, lat2, lon2) ==
    LET rlat1 == radians(lat1)
        rlon1 == radians(lon1)
        rlat2 == radians(lat2)
        rlon2 == radians(lon2)
        dlat  == rlat2 - rlat1
        dlon  == rlon2 - rlon1
        sdlat == fsin(dlat \div 2)
        sdlon == fsin(dlon \div 2)
        \* a, at scale FP*FP
        a     == sdlat * sdlat
                 + (FMul(fcos(rlat1), fcos(rlat2)) * ((sdlon * sdlon) \div 100)) \div 100
        c     == 2 * fasin(fsqrt(a))
        km    == (RAIO_TERRA * c) \div 1000
    IN  (km * FATOR_RODOVIA) \div 100

\* map(radians, [...]) raises TypeError unless every argument is a number
haversine_levanta(lat, lon) == lat.tipo # "num" \/ lon.tipo # "num"

---------------------------------------------------------------------------
(* calcular_distancias_cds *)

\* Mutant: an entry goes before the entries at the same distance
RECURSIVE InserirAntesDosIguais(_, _)
InserirAntesDosIguais(s, e) ==
    IF s = <<>> THEN <<e>>
    ELSE IF s[Len(s)].distancia < e.distancia
         THEN Append(s, e)
         ELSE Append(InserirAntesDosIguais(SubSeq(s, 1, Len(s) - 1), e), s[Len(s)])

\* list.sort(key=distancia): stable insertion of e into the sorted sequence s
RECURSIVE InserirOrdenado(_, _)
InserirOrdenado(s, e) ==
    IF s = <<>> THEN <<e>>
    ELSE IF s[Len(s)].distancia <= e.distancia
         THEN Append(s, e)
         ELSE Append(InserirOrdenado(SubSeq(s, 1, Len(s) - 1), e), s[Len(s)])

RECURSIVE OrdenarPorDistancia(_)
OrdenarPorDistancia(s) ==
    IF s = <<>> THEN <<>>
    ELSE InserirOrdenado(OrdenarPorDistancia(SubSeq(s, 1, Len(s) - 1)), s[Len(s)])

calcular_distancias_cds(lat, lon) ==
    OrdenarPorDistancia(
        [i \in 1..Len(ORDEM_CDS) |->
            [cd_id |-> ORDEM_CDS[i],
             distancia |-> haversine(CENTROS_DISTRIBUICAO[ORDEM_CDS[i]].lat,
                                     CENTROS_DISTRIBUICAO[ORDEM_CDS[i]].lon,
                                     lat, lon)]])

---------------------------------------------------------------------------
(* verificar_estoque_tray *)

\* Values a JSON field of the product record can hold, as int() sees them
ValoresEstoque == {Num(-1), Num(0), Num(3), NaoNum("texto")}

\* Keys of the product record: stock_<cd_codigo> for two of the CDs, and stock
ChavesProduto == {"stock_CD_RS", "stock_CD_CE", "stock"}

\* f"stock_{cd_codigo}"
campo_estoque(cd_codigo) ==
    CASE cd_codigo = "CD_RS" -> "stock_CD_RS"
      [] cd_codigo = "CD_SC" -> "stock_CD_SC"
      [] cd_codigo = "CD_MG" -> "stock_CD_MG"
      [] cd_codigo = "CD_MS" -> "stock_CD_MS"
      [] cd_codigo = "CD_CE" -> "stock_CD_CE"

\* data['products'][0]: a product record is a function from the keys it has
ProdutosTray == UNION {[K -> ValoresEstoque] : K \in SUBSET ChavesProduto}

\* Outcomes of requests.get(...) followed by response.json()
RespostasTray ==
    {[tipo |-> "timeout",     status |-> 0,   corpo |-> "nenhum",          produto |-> <<>>],
     [tipo |-> "erro_rede",   status |-> 0,   corpo |-> "nenhum",          produto |-> <<>>],
     [tipo |-> "http",        status |-> 404, corpo |-> "nenhum",          produto |-> <<>>],
     [tipo |-> "http",        status |-> 500, corpo |-> "nenhum",          produto |-> <<>>],
     [tipo |-> "http",        status |-> 200, corpo |-> "json_invalido",   produto |-> <<>>],
     [tipo |-> "http",        status |-> 200, corpo |-> "vazio",           produto |-> <<>>],
     [tipo |-> "http",        status |-> 200, corpo |-> "sem_products",    produto |-> <<>>],
     [tipo |-> "http",        status |-> 200, corpo |-> "products_vazio",  produto |-> <<>>]}
    \cup {[tipo |-> "http", status |-> 200, corpo |-> "produto", produto |-> p] :
            p \in ProdutosTray}

\* The guard before the try block: no request is made without URL and token
tray_configurada(url_ok, token_ok) == url_ok /\ token_ok

\* Mutant: a stock figure that does not convert counts as no stock
estoque_positivo_fechado(valor) == IF valor.tipo = "num" THEN valor.v > 0 ELSE FALSE

\* int(produto[campo]) > 0; int() raising lands in the except branch, which returns True
estoque_positivo(valor) == IF valor.tipo = "num" THEN valor.v > 0 ELSE TRUE

\* Body of the try block, given the answer r of the inventory service
estoque_da_resposta(r, cd_codigo) ==
    IF r.tipo # "http" THEN TRUE                      \* except Exception
    ELSE IF r.status # 200 THEN TRUE
    ELSE IF r.corpo = "json_invalido" THEN TRUE       \* response.json() raises
    ELSE IF r.corpo # "produto" THEN TRUE             \* not data / no products
    ELSE IF campo_estoque(cd_codigo) \in DOMAIN r.produto
         THEN estoque_positivo(r.produto[campo_estoque(cd_codigo)])
    ELSE IF "stock" \in DOMAIN r.produto
         THEN estoque_positivo(r.produto["stock"])
    ELSE TRUE

verificar_estoque_tray(url_ok, token_ok, r, cd_codigo) ==
    IF ~tray_configurada(url_ok, token_ok) THEN TRUE
    ELSE estoque_da_resposta(r, cd_codigo)

\* Lines 257-259: without URL or token the function answers at once
EstoqueSemConfiguracao ==
    /\ pc = "est_inicio"
    /\ ~tray_configurada(tray_url_ok, tray_token_ok)
    /\ est_retorno' = Bool(verificar_estoque_tray(tray_url_ok, tray_token_ok, Nenhum, est_cd))
    /\ pc' = "est_fim"
    /\ UNCHANGED <<chamadas, tray_url_ok, tray_token_ok, est_cd, est_resposta>>
    /\ UNCHANGED varsSel
    /\ UNCHANGED varsGeo
    /\ UNCHANGED varsFrete
    /\ UNCHANGED varsPreco

\* Lines 261-304: one request to the inventory service, then the answer is read
EstoqueConsulta ==
    /\ pc = "est_inicio"
    /\ tray_configurada(tray_url_ok, tray_token_ok)
    /\ chamadas' = Append(chamadas, "tray")
    /\ \E r \in RespostasTray :
        /\ est_resposta' = r
        /\ est_retorno' = Bool(verificar_estoque_tray(tray_url_ok, tray_token_ok, r, est_cd))
    /\ pc' = "est_fim"
    /\ UNCHANGED <<tray_url_ok, tray_token_ok, est_cd>>
    /\ UNCHANGED varsSel
    /\ UNCHANGED varsGeo
    /\ UNCHANGED varsFrete
    /\ UNCHANGED varsPreco

---------------------------------------------------------------------------
(* Strings: str.upper, str.replace, str.strip on sequences of characters *)

minusculas ==
    <<"a","b","c","d","e","f","g","h","i","j","k","l","m",
      "n","o","p","q","r","s","t","u","v","w","x","y","z">>

maiusculas ==
    <<"A","B","C","D","E","F","G","H","I","J","K","L","M",
      "N","O","P","Q","R","S","T","U","V","W","X","Y","Z">>

upper_char(c) ==
    IF \E i \in DOMAIN minusculas : minusculas[i] = c
    THEN maiusculas[CHOOSE i \in DOMAIN minusculas : minusculas[i] = c]
    ELSE c

\* str.upper()
upper(s) == [i \in DOMAIN s |-> upper_char(s[i])]

\* str.replace(ch, '')
remover(s, ch) == SelectSeq(s, LAMBDA c : c # ch)

RECURSIVE lstrip(_)
lstrip(s) == IF s # <<>> /\ s[1] = " " THEN lstrip(Tail(s)) ELSE s

RECURSIVE rstrip(_)
rstrip(s) ==
    IF s # <<>> /\ s[Len(s)] = " " THEN rstrip(SubSeq(s, 1, Len(s) - 1)) ELSE s

\* str.strip()
strip(s) == rstrip(lstrip(s))

---------------------------------------------------------------------------
(* buscar_coordenadas_capital *)

ORDEM_UFS ==
    <<"AC", "AL", "AP", "AM", "BA", "CE", "DF", "ES", "GO", "MA", "MT", "MS", "MG", "PA",
      "PB", "PR", "PE", "PI", "RJ", "RN", "RS", "RO", "RR", "SC", "SP", "SE", "TO">>

UFS == {ORDEM_UFS[i] : i \in 1..Len(ORDEM_UFS)}

capitais ==
    [AC |-> [lat |-> -99754, lon |-> -678249,
            nome |-> <<"R","i","o"," ","B","r","a","n","c","o">>],
     AL |-> [lat |-> -96658, lon |-> -357353,
            nome |-> <<"M","a","c","e","i","o">>],
     AP |-> [lat |-> 389, lon |-> -510664,
            nome |-> <<"M","a","c","a","p","a">>],
     AM |-> [lat |-> -31190, lon |-> -600217,
            nome |-> <<"M","a","n","a","u","s">>],
     BA |-> [lat |-> -129714, lon |-> -385014,
            nome |-> <<"S","a","l","v","a","d","o","r">>],
     CE |-> [lat |-> -37172, lon |-> -385433,
            nome |-> <<"F","o","r","t","a","l","e","z","a">>],
     DF |-> [lat |-> -157939, lon |-> -478828,
            nome |-> <<"B","r","a","s","i","l","i","a">>],
     ES |-> [lat |-> -203155, lon |-> -403128,
            nome |-> <<"V","i","t","o","r","i","a">>],
     GO |-> [lat |-> -166869, lon |-> -492648,
            nome |-> <<"G","o","i","a","n","i","a">>],
     MA |-> [lat |-> -25387, lon |-> -442825,
            nome |-> <<"S","a","o"," ","L","u","i","s">>],
     MT |-> [lat |-> -156014, lon |-> -560979,
            nome |-> <<"C","u","i","a","b","a">>],
     MS |-> [lat |-> -204697, lon |-> -546201,
            nome |-> <<"C","a","m","p","o"," ","G","r","a","n","d","e">>],
     MG |-> [lat |-> -199167, lon |-> -439345,
            nome |-> <<"B","e","l","o"," ","H","o","r","i","z","o","n","t","e">>],
     PA |-> [lat |-> -14558, lon |-> -485039,
            nome |-> <<"B","e","l","e","m">>],
     PB |-> [lat |-> -71195, lon |-> -348450,
            nome |-> <<"J","o","a","o"," ","P","e","s","s","o","a">>],
     PR |-> [lat |-> -254284, lon |-> -492733,
            nome |-> <<"C","u","r","i","t","i","b","a">>],
     PE |-> [lat |-> -80476, lon |-> -348770,
            nome |-> <<"R","e","c","i","f","e">>],
     PI |-> [lat |-> -50892, lon |-> -428016,
            nome |-> <<"T","e","r","e","s","i","n","a">>],
     RJ |-> [lat |-> -229068, lon |-> -431729,
            nome |-> <<"R","i","o"," ","d","e"," ","J","a","n","e","i","r","o">>],
     RN |-> [lat |-> -57945, lon |-> -352110,
            nome |-> <<"N","a","t","a","l">>],
     RS |-> [lat |-> -300346, lon |-> -512177,
            nome |-> <<"P","o","r","t","o"," ","A","l","e","g","r","e">>],
     RO |-> [lat |-> -87612, lon |-> -639004,
            nome |-> <<"P","o","r","t","o"," ","V","e","l","h","o">>],
     RR |-> [lat |-> 28235, lon |-> -606758,
            nome |-> <<"B","o","a"," ","V","i","s","t","a">>],
     SC |-> [lat |-> -275954, lon |-> -485480,
            nome |-> <<"F","l","o","r","i","a","n","o","p","o","l","i","s">>],
     SP |-> [lat |-> -235505, lon |-> -466333,
            nome |-> <<"S","a","o"," ","P","a","u","l","o">>],
     SE |-> [lat |-> -109472, lon |-> -370731,
            nome |-> <<"A","r","a","c","a","j","u">>],
     TO |-> [lat |-> -102491, lon |-> -483243,
            nome |-> <<"P","a","l","m","a","s">>]]

\* Mutant: a failed step falls back to the capital of the region
falha_geo_capital(u) ==
    IF u \in UFS
    THEN [tipo |-> "coord", municipio |-> capitais[u].nome, uf |-> u,
          codigo_ibge |-> Nenhum,
          lat |-> Num(capitais[u].lat), lon |-> Num(capitais[u].lon)]
    ELSE Nenhum

\* `return None`
falha_geo(u) == Nenhum

\* Mutant: the table lacks its last row
buscar_coordenadas_capital_sem_TO(u) ==
    IF u \in UFS \ {"TO"}
    THEN [tipo |-> "coord", municipio |-> capitais[u].nome, uf |-> u,
          codigo_ibge |-> Nenhum,
          lat |-> Num(capitais[u].lat), lon |-> Num(capitais[u].lon)]
    ELSE Nenhum

buscar_coordenadas_capital(u) ==
    IF u \in UFS
    THEN [tipo |-> "coord", municipio |-> capitais[u].nome, uf |-> u,
          codigo_ibge |-> Nenhum,
          lat |-> Num(capitais[u].lat), lon |-> Num(capitais[u].lon)]
    ELSE falha_geo(u)

---------------------------------------------------------------------------
(* buscar_coordenadas_ibge *)

\* cep.replace('-', '').replace('.', '').strip()
normalizar_cep(c) == strip(remover(remover(c, "-"), "."))

\* Municipality names used by the model
TAUA == <<"T","a","u","a">>

NomesMunicipio == {TAUA, upper(TAUA), <<"T","a","u">>, <<"I","p","e">>}

\* Outcomes of the ViaCEP request; a missing localidade/uf key reads as ''
RespostasViaCep ==
    {[tipo |-> "timeout",   status |-> 0,   corpo |-> "nenhum",        localidade |-> <<>>, uf |-> ""],
     [tipo |-> "erro_rede", status |-> 0,   corpo |-> "nenhum",        localidade |-> <<>>, uf |-> ""],
     [tipo |-> "http",      status |-> 400, corpo |-> "nenhum",        localidade |-> <<>>, uf |-> ""],
     [tipo |-> "http",      status |-> 200, corpo |-> "json_invalido", localidade |-> <<>>, uf |-> ""],
     [tipo |-> "http",      status |-> 200, corpo |-> "erro",          localidade |-> <<>>, uf |-> ""],
     [tipo |-> "http",      status |-> 200, corpo |-> "endereco",      localidade |-> <<>>, uf |-> "CE"],
     [tipo |-> "http",      status |-> 200, corpo |-> "endereco",      localidade |-> TAUA, uf |-> ""]}
    \cup {[tipo |-> "http", status |-> 200, corpo |-> "endereco", localidade |-> TAUA, uf |-> u] :
            u \in UFS \cup {"XX"}}

\* Mutant: the function goes on whatever the ViaCEP answer
viacep_ok_sempre(r) == TRUE

\* Lines 115-132: what the ViaCEP answer lets the function go on with
viacep_ok(r) ==
    /\ r.tipo = "http"
    /\ r.status = 200
    /\ r.corpo = "endereco"            \* json() parsed and no 'erro' key
    /\ r.localidade # <<>>
    /\ r.uf # ""

\* Municipality catalogues and the outcomes of the catalogue request
ListasMunicipios ==
    {<<>>,
     <<[nome |-> <<"I","p","e">>, id |-> 4310439]>>,
     <<[nome |-> <<"T","a","u">>, id |-> 2313203], [nome |-> <<"I","p","e">>, id |-> 4310439]>>,
     <<[nome |-> <<"I","p","e">>, id |-> 4310439], [nome |-> upper(TAUA), id |-> 2313302]>>,
     <<[nome |-> TAUA, id |-> 2313302], [nome |-> upper(TAUA), id |-> 9999999]>>}

RespostasMunicipios ==
    {[tipo |-> "timeout",   status |-> 0,   corpo |-> "nenhum",        municipios |-> <<>>],
     [tipo |-> "erro_rede", status |-> 0,   corpo |-> "nenhum",        municipios |-> <<>>],
     [tipo |-> "http",      status |-> 500, corpo |-> "nenhum",        municipios |-> <<>>],
     [tipo |-> "http",      status |-> 200, corpo |-> "json_invalido", municipios |-> <<>>],
     [tipo |-> "http",      status |-> 200, corpo |-> "malformado",    municipios |-> <<>>]}
    \cup {[tipo |-> "http", status |-> 200, corpo |-> "lista", municipios |-> l] :
            l \in ListasMunicipios}

\* Lines 138-144: the catalogue was read (entries without 'nome' raise KeyError)
municipios_ok(r) == r.tipo = "http" /\ r.status = 200 /\ r.corpo = "lista"

\* `mun['nome'].upper() == municipio.upper()`
mesmo_nome(a, b) == upper(a) = upper(b)

\* Lines 147-151: position of the first entry with the same name, 0 when there is none
procurar_municipio(lista, nome) ==
    IF \E i \in DOMAIN lista : mesmo_nome(lista[i].nome, nome)
    THEN CHOOSE i \in DOMAIN lista :
            /\ mesmo_nome(lista[i].nome, nome)
            /\ \A j \in 1..(i - 1) : ~mesmo_nome(lista[j].nome, nome)
    ELSE 0

\* JSON values of a coordinate field: a number, a numeric string, another string, null
ParesJson ==
    {<<Num(-402925), Num(-60014)>>,
     <<Num(-466333), Num(-235505)>>,
     <<[tipo |-> "texto_num", v |-> -466333], [tipo |-> "texto_num", v |-> -235505]>>,
     <<NaoNum("texto"), NaoNum("texto")>>,
     <<Num(-466333), NaoNum("nulo")>>}

\* Outcomes of the coordinate request.  geometria: data['geometria']['coordenadas']
\* when present (a sequence, possibly too short); plano: <<longitude, latitude>>
\* when both flat keys are present
RespostasCoord ==
    {[tipo |-> "timeout",   status |-> 0,   corpo |-> "nenhum",        geometria |-> <<>>, plano |-> <<>>],
     [tipo |-> "erro_rede", status |-> 0,   corpo |-> "nenhum",        geometria |-> <<>>, plano |-> <<>>],
     [tipo |-> "http",      status |-> 404, corpo |-> "nenhum",        geometria |-> <<>>, plano |-> <<>>],
     [tipo |-> "http",      status |-> 200, corpo |-> "json_invalido", geometria |-> <<>>, plano |-> <<>>],
     [tipo |-> "http",      status |-> 200, corpo |-> "outra",         geometria |-> <<>>, plano |-> <<>>],
     [tipo |-> "http",      status |-> 200, corpo |-> "geometria",     geometria |-> <<Num(-466333)>>, plano |-> <<>>]}
    \cup {[tipo |-> "http", status |-> 200, corpo |-> "geometria", geometria |-> g, plano |-> <<>>] :
            g \in ParesJson}
    \cup {[tipo |-> "http", status |-> 200, corpo |-> "plano", geometria |-> <<>>, plano |-> f] :
            f \in ParesJson}
    \cup {[tipo |-> "http", status |-> 200, corpo |-> "ambas",
           geometria |-> <<Num(-402925), Num(-60014)>>, plano |-> f] : f \in ParesJson}

\* float(x): a number or a numeric string converts, anything else raises
float_ok(x) == x.tipo \in {"num", "texto_num"}

float(x) == Num(x.v)

\* Mutant: the nested pair is read as [latitude, longitude]
extrair_coordenadas_lat_lon(r) ==
    IF r.corpo \in {"geometria", "ambas"}
    THEN IF Len(r.geometria) >= 2
         THEN <<r.geometria[2], r.geometria[1]>>
         ELSE <<>>
    ELSE IF r.corpo = "plano"
    THEN IF float_ok(r.plano[1]) /\ float_ok(r.plano[2])
         THEN <<float(r.plano[1]), float(r.plano[2])>>
         ELSE <<>>
    ELSE <<>>

\* Lines 171-196: <<lon, lat>> read from the answer, or <<>> when the function gives up
extrair_coordenadas(r) ==
    IF r.corpo \in {"geometria", "ambas"}
    THEN IF Len(r.geometria) >= 2
         THEN <<r.geometria[1], r.geometria[2]>>      \* taken as they are
         ELSE <<>>                                    \* IndexError
    ELSE IF r.corpo = "plano"
    THEN IF float_ok(r.plano[1]) /\ float_ok(r.plano[2])
         THEN <<float(r.plano[1]), float(r.plano[2])>>
         ELSE <<>>                                    \* ValueError / TypeError
    ELSE <<>>

\* Lines 162-168: the coordinate answer was read
coordenadas_ok(r) ==
    /\ r.tipo = "http"
    /\ r.status = 200
    /\ r.corpo # "json_invalido"

\* Lines 186-192
resolucao(mun, u, codigo, par) ==
    [tipo |-> "coord", municipio |-> mun, uf |-> u, codigo_ibge |-> Num(codigo),
     lat |-> par[2], lon |-> par[1]]

\* Step 1 (lines 110-132)
GeoViaCep ==
    /\ pc = "geo_viacep"
    /\ cep' = normalizar_cep(cep)
    /\ chamadas' = Append(chamadas, "viacep")
    /\ \E r \in RespostasViaCep :
        /\ resp_viacep' = r
        /\ IF viacep_ok(r)
           THEN /\ municipio' = r.localidade
                /\ uf' = r.uf
                /\ pc' = "geo_municipios"
                /\ UNCHANGED coord_destino
           ELSE /\ coord_destino' = falha_geo(r.uf)
                /\ pc' = "geo_fim"
                /\ UNCHANGED <<municipio, uf>>
    /\ UNCHANGED <<resp_municipios, resp_coord, codigo_ibge>>
    /\ UNCHANGED varsTray
    /\ UNCHANGED varsSel
    /\ UNCHANGED varsFrete
    /\ UNCHANGED varsPreco

\* Step 2 (lines 137-158)
GeoMunicipios ==
    /\ pc = "geo_municipios"
    /\ chamadas' = Append(chamadas, "ibge_municipios")
    /\ \E r \in RespostasMunicipios :
        /\ resp_municipios' = r
        /\ IF ~municipios_ok(r)
           THEN /\ coord_destino' = falha_geo(uf)
                /\ pc' = "geo_fim"
                /\ UNCHANGED codigo_ibge
           ELSE IF procurar_municipio(r.municipios, municipio) = 0
           THEN /\ coord_destino' = buscar_coordenadas_capital(uf)
                /\ pc' = "geo_fim"
                /\ UNCHANGED codigo_ibge
           ELSE /\ codigo_ibge' = r.municipios[procurar_municipio(r.municipios, municipio)].id
                /\ pc' = "geo_coordenadas"
                /\ UNCHANGED coord_destino
    /\ UNCHANGED <<cep, municipio, uf, resp_viacep, resp_coord>>
    /\ UNCHANGED varsTray
    /\ UNCHANGED varsSel
    /\ UNCHANGED varsFrete
    /\ UNCHANGED varsPreco

\* Step 3 (lines 161-196)
GeoCoordenadas ==
    /\ pc = "geo_coordenadas"
    /\ chamadas' = Append(chamadas, "ibge_coordenadas")
    /\ \E r \in RespostasCoord :
        /\ resp_coord' = r
        /\ coord_destino' =
              IF coordenadas_ok(r) /\ extrair_coordenadas(r) # <<>>
              THEN resolucao(municipio, uf, codigo_ibge, extrair_coordenadas(r))
              ELSE falha_geo(uf)
    /\ pc' = "geo_fim"
    /\ UNCHANGED <<cep, municipio, uf, codigo_ibge, resp_viacep, resp_municipios>>
    /\ UNCHANGED varsTray
    /\ UNCHANGED varsSel
    /\ UNCHANGED varsFrete
    /\ UNCHANGED varsPreco

---------------------------------------------------------------------------
(* selecionar_melhor_cd *)

\* Mutant: the stock check is asked for every item, codigo or not
precisa_verificar_sempre(produto) == TRUE

\* `if codigo and ...`: an item whose codigo is empty is not checked
precisa_verificar(produto) == produto.codigo # <<>>

\* The dict returned from inside the loop (lines 361-366)
retorno_com_estoque(d) ==
    [tipo |-> "cd", cd_id |-> d.cd_id, distancia |-> d.distancia, tem_estoque |-> TRUE]

\* Mutant: the fallback takes the last entry of the ranking
retorno_sem_estoque_ultimo(dists) ==
    [tipo |-> "cd", cd_id |-> dists[Len(dists)].cd_id,
     distancia |-> dists[Len(dists)].distancia, tem_estoque |-> FALSE]

\* The dict returned after the loop (lines 370-375)
retorno_sem_estoque(dists) ==
    [tipo |-> "cd", cd_id |-> dists[1].cd_id, distancia |-> dists[1].distancia,
     tem_estoque |-> FALSE]

\* Mutant: after an unavailable item the next CD of the ranking is left out
apos_indisponivel_salta(d) == d + 2

\* Where the outer loop goes after an item is reported unavailable: break, next CD
apos_indisponivel(d) == d + 1

\* One stock check as the selection sees it: the call log and the answer
registro_verificacao(d, p, disponivel) ==
    [cd_id |-> distancias[d].cd_id, p |-> p, codigo |-> produtos[p].codigo,
     disponivel |-> disponivel]

\* What verificar_estoque_tray(codigo, cd_info['codigo_cd_tray']) can answer,
\* over every answer of the inventory service
respostas_possiveis(cd_id) ==
    {verificar_estoque_tray(tray_url_ok, tray_token_ok, r,
                            CENTROS_DISTRIBUICAO[cd_id].codigo_cd_tray) :
        r \in RespostasTray}

\* Line 338: the ranking is built, or haversine raises on a non-numeric coordinate
SelecionarInicio ==
    /\ pc = "sel_inicio"
    /\ IF haversine_levanta(lat_destino, lon_destino)
       THEN /\ pc' = "sel_excecao"
            /\ UNCHANGED <<distancias, d_idx, p_idx>>
       ELSE /\ distancias' = calcular_distancias_cds(lat_destino.v, lon_destino.v)
            /\ d_idx' = 1
            /\ p_idx' = 1
            /\ pc' = "sel_laco"
    /\ UNCHANGED varsGeo
    /\ UNCHANGED varsFrete
    /\ UNCHANGED <<chamadas, tray_url_ok, tray_token_ok, est_cd, est_resposta,
                   est_retorno, lat_destino, lon_destino, produtos,
                   verificacoes, resultado_cd>>
    /\ UNCHANGED varsPreco

\* Lines 352-354, item without codigo: nothing is asked
SelecionarPulaItem ==
    /\ pc = "sel_laco"
    /\ d_idx <= Len(distancias)
    /\ p_idx <= Len(produtos)
    /\ ~precisa_verificar(produtos[p_idx])
    /\ p_idx' = p_idx + 1
    /\ UNCHANGED varsGeo
    /\ UNCHANGED varsFrete
    /\ UNCHANGED <<pc, chamadas, tray_url_ok, tray_token_ok, est_cd, est_resposta,
                   est_retorno, lat_destino, lon_destino, produtos, distancias,
                   d_idx, verificacoes, resultado_cd>>
    /\ UNCHANGED varsPreco

\* Lines 352-357, item with codigo: verificar_estoque_tray is called
SelecionarVerificaItem ==
    /\ pc = "sel_laco"
    /\ d_idx <= Len(distancias)
    /\ p_idx <= Len(produtos)
    /\ precisa_verificar(produtos[p_idx])
    /\ \E disponivel \in respostas_possiveis(distancias[d_idx].cd_id) :
        /\ verificacoes' = Append(verificacoes,
                                  registro_verificacao(d_idx, p_idx, disponivel))
        /\ IF disponivel
           THEN /\ p_idx' = p_idx + 1
                /\ d_idx' = d_idx
           ELSE /\ p_idx' = 1
                /\ d_idx' = apos_indisponivel(d_idx)
    /\ chamadas' = IF tray_configurada(tray_url_ok, tray_token_ok)
                   THEN Append(chamadas, "tray") ELSE chamadas
    /\ UNCHANGED varsGeo
    /\ UNCHANGED varsFrete
    /\ UNCHANGED <<pc, tray_url_ok, tray_token_ok, est_cd, est_resposta,
                   est_retorno, lat_destino, lon_destino, produtos, distancias,
                   resultado_cd>>
    /\ UNCHANGED varsPreco

\* Lines 359-366: the inner loop ended without break
SelecionarEscolhe ==
    /\ pc = "sel_laco"
    /\ d_idx <= Len(distancias)
    /\ p_idx > Len(produtos)
    /\ resultado_cd' = retorno_com_estoque(distancias[d_idx])
    /\ pc' = "sel_fim"
    /\ UNCHANGED varsGeo
    /\ UNCHANGED varsFrete
    /\ UNCHANGED <<chamadas, tray_url_ok, tray_token_ok, est_cd, est_resposta,
                   est_retorno, lat_destino, lon_destino, produtos, distancias,
                   d_idx, p_idx, verificacoes>>
    /\ UNCHANGED varsPreco

\* Lines 368-375: the outer loop ended
SelecionarMaisProximo ==
    /\ pc = "sel_laco"
    /\ d_idx > Len(distancias)
    /\ resultado_cd' = retorno_sem_estoque(distancias)
    /\ pc' = "sel_fim"
    /\ UNCHANGED varsGeo
    /\ UNCHANGED varsFrete
    /\ UNCHANGED <<chamadas, tray_url_ok, tray_token_ok, est_cd, est_resposta,
                   est_retorno, lat_destino, lon_destino, produtos, distancias,
                   d_idx, p_idx, verificacoes>>
    /\ UNCHANGED varsPreco

---------------------------------------------------------------------------
(* parse_produtos_tray *)

digitos == <<"0","1","2","3","4","5","6","7","8","9">>

eh_digito(c) == \E i \in DOMAIN digitos : digitos[i] = c

valor_digito(c) == (CHOOSE i \in DOMAIN digitos : digitos[i] = c) - 1

RECURSIVE valor_digitos(_)
valor_digitos(s) ==
    IF s = <<>> THEN 0
    ELSE valor_digitos(SubSeq(s, 1, Len(s) - 1)) * 10 + valor_digito(s[Len(s)])

negativo(s) == s # <<>> /\ s[1] = "-"

sem_sinal(s) == IF negativo(s) THEN Tail(s) ELSE s

\* int(texto) succeeds: blanks around, an optional sign, one digit or more
int_ok(texto) ==
    LET d == sem_sinal(strip(texto))
    IN  d # <<>> /\ \A i \in DOMAIN d : eh_digito(d[i])

int(texto) ==
    LET t == strip(texto)
    IN  IF negativo(t) THEN 0 - valor_digitos(sem_sinal(t)) ELSE valor_digitos(t)

\* Position of the decimal point in d, Len(d) + 1 when it has none
posicao_ponto(d) ==
    IF \E i \in DOMAIN d : d[i] = "."
    THEN CHOOSE i \in DOMAIN d : d[i] = "." /\ \A j \in 1..(i - 1) : d[j] # "."
    ELSE Len(d) + 1

\* float(texto) succeeds: blanks around, an optional sign, digits with at most
\* one decimal point and at least one digit
float_texto_ok(texto) ==
    LET d == sem_sinal(strip(texto))
    IN  /\ \A i \in DOMAIN d : eh_digito(d[i]) \/ d[i] = "."
        /\ \E i \in DOMAIN d : eh_digito(d[i])
        /\ \A i, j \in DOMAIN d : (d[i] = "." /\ d[j] = ".") => i = j

\* float(texto) in hundredths; decimals after the second are not represented
float_texto(texto) ==
    LET t   == strip(texto)
        d   == sem_sinal(t)
        k   == posicao_ponto(d)
        fr  == SubSeq(d, k + 1, Len(d))
        c1  == IF Len(fr) >= 1 THEN valor_digito(fr[1]) ELSE 0
        c2  == IF Len(fr) >= 2 THEN valor_digito(fr[2]) ELSE 0
        abs == valor_digitos(SubSeq(d, 1, k - 1)) * 100 + c1 * 10 + c2
    IN  IF negativo(t) THEN 0 - abs ELSE abs

\* str.split(sep): the pieces of s between the separators
RECURSIVE split(_, _)
split(s, sep) ==
    IF \E i \in DOMAIN s : s[i] = sep
    THEN LET k == CHOOSE i \in DOMAIN s : s[i] = sep /\ \A j \in 1..(i - 1) : s[j] # sep
         IN  <<SubSeq(s, 1, k - 1)>> \o split(SubSeq(s, k + 1, Len(s)), sep)
    ELSE <<s>>

NUM_CAMPOS == 8

\* Mutant: an item needs more than eight fields
campos_suficientes_mais_de_8(campos) == Len(campos) > NUM_CAMPOS

\* `len(campos) >= 8`
campos_suficientes(campos) == Len(campos) >= NUM_CAMPOS

\* The seven conversions of lines 436-443 all succeed
campos_convertem(campos) ==
    /\ float_texto_ok(campos[1])
    /\ float_texto_ok(campos[2])
    /\ float_texto_ok(campos[3])
    /\ float_texto_ok(campos[4])
    /\ int_ok(campos[5])
    /\ float_texto_ok(campos[6])
    /\ float_texto_ok(campos[8])

\* The dict appended at lines 435-444
produto_de(campos) ==
    [comprimento |-> float_texto(campos[1]),
     largura     |-> float_texto(campos[2]),
     altura      |-> float_texto(campos[3]),
     cubagem     |-> float_texto(campos[4]),
     quantidade  |-> int(campos[5]),
     peso        |-> float_texto(campos[6]),
     codigo      |-> campos[7],
     valor       |-> float_texto(campos[8])]

\* The loop of lines 430-444 over the items still to read, acc being `produtos`.
\* A conversion that raises leaves the loop: <<FALSE, ...>>
RECURSIVE percorrer_itens(_, _)
percorrer_itens(itens, acc) ==
    IF itens = <<>> THEN <<TRUE, acc>>
    ELSE LET campos == split(itens[1], ";")
         IN  IF ~campos_suficientes(campos)
             THEN percorrer_itens(Tail(itens), acc)
             ELSE IF campos_convertem(campos)
             THEN percorrer_itens(Tail(itens), Append(acc, produto_de(campos)))
             ELSE <<FALSE, acc>>

\* Mutant: the except branch returns the products read before the error
retorno_excecao_parse_parcial(acc) == acc

\* `except Exception: return []`
retorno_excecao_parse(acc) == <<>>

parse_produtos_tray(produtos_str) ==
    LET r == percorrer_itens(split(produtos_str, "/"), <<>>)
    IN  IF r[1] THEN r[2] ELSE retorno_excecao_parse(r[2])

\* parse_produtos_tray called on its own
ParseDireto ==
    /\ pc = "parse_direto"
    /\ produtos' = parse_produtos_tray(prods)
    /\ pc' = "parse_direto_fim"
    /\ UNCHANGED <<chamadas, lat_destino, lon_destino, distancias, d_idx, p_idx,
                   verificacoes, resultado_cd>>
    /\ UNCHANGED varsTray
    /\ UNCHANGED varsGeo
    /\ UNCHANGED varsFrete
    /\ UNCHANGED varsPreco

---------------------------------------------------------------------------
(* calcular_frete: validation and parsing *)

\* Mutant: the order is looked at before the postal code
FreteValidaPedidoPrimeiro ==
    /\ pc = "frete_inicio"
    /\ IF prods = <<>>
       THEN resposta' = "MissingOrder" /\ pc' = "frete_fim"
       ELSE IF cep = <<>>
       THEN resposta' = "MissingPostalCode" /\ pc' = "frete_fim"
       ELSE resposta' = resposta /\ pc' = "frete_parse"
    /\ UNCHANGED <<chamadas, prods>>
    /\ UNCHANGED varsTray
    /\ UNCHANGED varsSel
    /\ UNCHANGED varsGeo
    /\ UNCHANGED varsPreco

\* Lines 476-491: `if not cep`, then `if not produtos_str`
FreteValida ==
    /\ pc = "frete_inicio"
    /\ IF cep = <<>>
       THEN resposta' = "MissingPostalCode" /\ pc' = "frete_fim"
       ELSE IF prods = <<>>
       THEN resposta' = "MissingOrder" /\ pc' = "frete_fim"
       ELSE resposta' = resposta /\ pc' = "frete_parse"
    /\ UNCHANGED <<chamadas, prods>>
    /\ UNCHANGED varsTray
    /\ UNCHANGED varsSel
    /\ UNCHANGED varsGeo
    /\ UNCHANGED varsPreco

\* Lines 494-501: the order is parsed; no product is a malformed order
FreteParse ==
    /\ pc = "frete_parse"
    /\ produtos' = parse_produtos_tray(prods)
    /\ IF parse_produtos_tray(prods) = <<>>
       THEN resposta' = "MalformedOrder" /\ pc' = "frete_fim"
       ELSE resposta' = resposta /\ pc' = "frete_totais"
    /\ UNCHANGED <<chamadas, prods, lat_destino, lon_destino, distancias, d_idx,
                   p_idx, verificacoes, resultado_cd>>
    /\ UNCHANGED varsTray
    /\ UNCHANGED varsGeo
    /\ UNCHANGED varsPreco

---------------------------------------------------------------------------
(* calcular_valor_frete.  Its arguments are floats: Num(n), a finite number in *)
(* the unit of the argument, or NaN, which float() produces from the text      *)
(* "nan" (infinities are left out).  A finite amount is kept exact:            *)
(* Exato(i, n) stands for i + n / DENOMINADOR cents, 0 <= n < DENOMINADOR.     *)

NaN == [tipo |-> "nan"]

Exato(i, n) == [tipo |-> "num", i |-> i, n |-> n]

VALOR_MINIMO == 5000

DENOMINADOR == 20000 * 1000

\* `if valor_km is None: valor_km = DEFAULT_VALOR_KM`
taxa_usada(taxa, padrao) == IF taxa = Nenhum THEN padrao ELSE taxa

\* valor_base = distancia_km * valor_km, in cents (0.1 km times 0.1 per km)
valor_base(distancia, taxa) == distancia * taxa

\* Mutant: five per cent for every 5 kg
fator_peso_5kg(peso) == 20000 + 2 * peso

\* fator_peso = 1 + (peso_total / 10) * 0.05, as a numerator over 20000
fator_peso(peso) == 20000 + peso

\* fator_volume = 1 + (volume_total * 0.1), as a numerator over 1000
fator_volume(volume) == 1000 + volume

\* valor_base * fator_peso * fator_volume; a NaN operand makes the product NaN
valor_final(distancia, peso, volume, taxa) ==
    IF NaN \in {distancia, peso, volume, taxa}
    THEN NaN
    ELSE
    LET vb  == valor_base(distancia.v, taxa.v)
        f1  == fator_peso(peso.v)
        f2  == fator_volume(volume.v)
        \* vb * f1 / 20000 = i1 + r1 / 20000
        p1  == (vb % 20000) * f1
        i1  == (vb \div 20000) * f1 + (p1 \div 20000)
        r1  == p1 % 20000
        \* (i1 + r1 / 20000) * f2 / 1000
        p2  == (i1 % 1000) * f2
        t   == (p2 % 1000) * 20000 + r1 * f2
    IN  Exato((i1 \div 1000) * f2 + (p2 \div 1000) + (t \div DENOMINADOR), t % DENOMINADOR)

\* 50.00 > x, the comparison max() makes; it is false when x is NaN
maior_que(minimo, x) == x.tipo = "num" /\ minimo > x.i

\* max(valor_final, 50.00): the first argument stays unless the second is greater
com_minimo(x) == IF maior_que(VALOR_MINIMO, x) THEN Exato(VALOR_MINIMO, 0) ELSE x

\* round(valor_final, 2): to the nearest cent, a half to the even cent; NaN stays NaN
round2(x) ==
    IF x.tipo = "nan" THEN NaN
    ELSE IF 2 * x.n < DENOMINADOR THEN Num(x.i)
    ELSE IF 2 * x.n > DENOMINADOR THEN Num(x.i + 1)
    ELSE IF x.i % 2 = 0 THEN Num(x.i) ELSE Num(x.i + 1)

calcular_valor_frete(distancia, peso, volume, taxa, padrao) ==
    round2(com_minimo(valor_final(distancia, peso, volume, taxa_usada(taxa, padrao))))

CalcularValorFrete ==
    /\ pc = "preco_inicio"
    /\ valor_frete' = calcular_valor_frete(distancia_km, peso_total, volume_total,
                                           valor_km, default_valor_km)
    /\ pc' = "preco_fim"
    /\ UNCHANGED <<chamadas, default_valor_km, distancia_km, peso_total, volume_total,
                   valor_km, prazo>>
    /\ UNCHANGED varsTray
    /\ UNCHANGED varsSel
    /\ UNCHANGED varsGeo
    /\ UNCHANGED varsFrete

---------------------------------------------------------------------------
(* calcular_prazo_entrega.  The distance is Num(n), n in 0.1 km, or NaN.       *)

\* Mutant: the upper bounds are exclusive
menor_ou_igual_exclusivo(x, limite) == x.tipo = "num" /\ x.v < limite

\* distancia_km <= limite; the comparison is false when the distance is NaN
menor_ou_igual(x, limite) == x.tipo = "num" /\ x.v <= limite

calcular_prazo_entrega(distancia) ==
    IF menor_ou_igual(distancia, 1000) THEN 3
    ELSE IF menor_ou_igual(distancia, 3000) THEN 5
    ELSE IF menor_ou_igual(distancia, 6000) THEN 7
    ELSE IF menor_ou_igual(distancia, 10000) THEN 10
    ELSE 15

CalcularPrazoEntrega ==
    /\ pc = "prazo_inicio"
    /\ prazo' = calcular_prazo_entrega(distancia_km)
    /\ pc' = "prazo_fim"
    /\ UNCHANGED <<chamadas, default_valor_km, distancia_km, peso_total, volume_total,
                   valor_km, valor_frete>>
    /\ UNCHANGED varsTray
    /\ UNCHANGED varsSel
    /\ UNCHANGED varsGeo
    /\ UNCHANGED varsFrete

---------------------------------------------------------------------------
(* calcular_frete: totals, geocoding, selection and quote *)

\* sum(p[campo] * p['quantidade'] for p in produtos)
RECURSIVE soma_por_quantidade(_, _)
soma_por_quantidade(ps, campo) ==
    IF ps = <<>> THEN 0
    ELSE ps[1][campo] * ps[1].quantidade + soma_por_quantidade(Tail(ps), campo)

\* Lines 506-513: the totals, then buscar_coordenadas_ibge(cep) is entered
FreteTotais ==
    /\ pc = "frete_totais"
    /\ peso_total' = Num(soma_por_quantidade(produtos, "peso"))
    /\ volume_total' = Num(soma_por_quantidade(produtos, "cubagem"))
    /\ pc' = "geo_viacep"
    /\ UNCHANGED <<chamadas, default_valor_km, distancia_km, valor_km, valor_frete, prazo>>
    /\ UNCHANGED varsTray
    /\ UNCHANGED varsSel
    /\ UNCHANGED varsGeo
    /\ UNCHANGED varsFrete

\* Lines 515-529: `if not coord_destino`, else selecionar_melhor_cd is entered
FreteDestino ==
    /\ pc = "geo_fim"
    /\ IF coord_destino = Nenhum
       THEN /\ resposta' = "GeoLookupFailed"
            /\ pc' = "frete_fim"
            /\ UNCHANGED <<lat_destino, lon_destino>>
       ELSE /\ lat_destino' = coord_destino.lat
            /\ lon_destino' = coord_destino.lon
            /\ pc' = "sel_inicio"
            /\ UNCHANGED resposta
    /\ UNCHANGED <<chamadas, prods, produtos, distancias, d_idx, p_idx, verificacoes,
                   resultado_cd>>
    /\ UNCHANGED varsTray
    /\ UNCHANGED varsGeo
    /\ UNCHANGED varsPreco

\* Lines 531-558: price and lead time for the distance of the selected CD
FreteCota ==
    /\ pc = "sel_fim"
    /\ distancia_km' = Num(resultado_cd.distancia)
    /\ valor_frete' = calcular_valor_frete(Num(resultado_cd.distancia), peso_total,
                                           volume_total, Nenhum, default_valor_km)
    /\ prazo' = calcular_prazo_entrega(Num(resultado_cd.distancia))
    /\ resposta' = "cotacao"
    /\ pc' = "frete_fim"
    /\ UNCHANGED <<chamadas, prods, default_valor_km, peso_total, volume_total, valor_km>>
    /\ UNCHANGED varsTray
    /\ UNCHANGED varsSel
    /\ UNCHANGED varsGeo

\* Lines 560-568: an exception raised below calcular_frete is answered with status 500
FreteExcecao ==
    /\ pc = "sel_excecao"
    /\ resposta' = "erro_500"
    /\ pc' = "frete_fim"
    /\ UNCHANGED <<chamadas, prods>>
    /\ UNCHANGED varsTray
    /\ UNCHANGED varsSel
    /\ UNCHANGED varsGeo
    /\ UNCHANGED varsPreco

---------------------------------------------------------------------------
(* Specifications: each studies one function from the states it can start in *)

\* The parts of the state a specification does not use
TrayParado ==
    /\ est_cd = "CD_RS"
    /\ est_resposta = Nenhum
    /\ est_retorno = Nenhum

SelParado ==
    /\ lat_destino = Num(0)
    /\ lon_destino = Num(0)
    /\ produtos = <<>>
    /\ distancias = <<>>
    /\ d_idx = 0
    /\ p_idx = 0
    /\ verificacoes = <<>>
    /\ resultado_cd = Nenhum

GeoParado ==
    /\ cep = <<>>
    /\ municipio = <<>>
    /\ uf = ""
    /\ codigo_ibge = 0
    /\ resp_viacep = Nenhum
    /\ resp_municipios = Nenhum
    /\ resp_coord = Nenhum
    /\ coord_destino = Nenhum

FreteParado ==
    /\ prods = <<>>
    /\ resposta = "nenhuma"

PrecoParado ==
    /\ default_valor_km = Num(70)
    /\ distancia_km = Num(0)
    /\ peso_total = Num(0)
    /\ volume_total = Num(0)
    /\ valor_km = Nenhum
    /\ valor_frete = Num(0)
    /\ prazo = 0

\* Postal codes as the caller may write them
Ceps ==
    {<<"6","3","6","6","0","0","0","0">>,
     <<"6","3","6","6","0","-","0","0","0">>,
     <<" ","6","3",".","6","6","0","-","0","0","0"," ">>}

InitGeo ==
    /\ pc = "geo_viacep"
    /\ chamadas = <<>>
    /\ tray_url_ok = FALSE
    /\ tray_token_ok = FALSE
    /\ TrayParado
    /\ SelParado
    /\ cep \in Ceps
    /\ municipio = <<>>
    /\ uf = ""
    /\ codigo_ibge = 0
    /\ resp_viacep = Nenhum
    /\ resp_municipios = Nenhum
    /\ resp_coord = Nenhum
    /\ coord_destino = Nenhum
    /\ FreteParado
    /\ PrecoParado

NextGeo ==
    \/ GeoViaCep
    \/ GeoMunicipios
    \/ GeoCoordenadas

SpecGeo == InitGeo /\ [][NextGeo]_vars

\* Line items as selecionar_melhor_cd reads them: only codigo is looked at
CodigosSel == {<<>>, <<"A">>, <<"B">>}

ItensSel ==
    {[comprimento |-> 1000, largura |-> 500, altura |-> 200, cubagem |-> 10,
      quantidade |-> 1, peso |-> 350, codigo |-> c, valor |-> 9990] : c \in CodigosSel}

\* Everything buscar_coordenadas_ibge can return besides None: a capital, or
\* the coordinates read from an answer of the coordinate service
ResultadosGeo ==
    {buscar_coordenadas_capital(u) : u \in UFS}
    \cup {resolucao(TAUA, "CE", 2313302, extrair_coordenadas(r)) :
            r \in {x \in RespostasCoord : coordenadas_ok(x) /\ extrair_coordenadas(x) # <<>>}}

\* calcular_frete hands coord_destino['lat'], coord_destino['lon'] to the selection
Destinos == {<<g.lat, g.lon>> : g \in ResultadosGeo}

InitSel ==
    /\ pc = "sel_inicio"
    /\ chamadas = <<>>
    /\ tray_url_ok \in BOOLEAN
    /\ tray_token_ok \in BOOLEAN
    /\ TrayParado
    /\ \E dest \in Destinos : lat_destino = dest[1] /\ lon_destino = dest[2]
    /\ produtos \in SeqsAte(ItensSel, MaxItens)
    /\ distancias = <<>>
    /\ d_idx = 0
    /\ p_idx = 0
    /\ verificacoes = <<>>
    /\ resultado_cd = Nenhum
    /\ GeoParado
    /\ FreteParado
    /\ PrecoParado

NextSel ==
    \/ SelecionarInicio
    \/ SelecionarPulaItem
    \/ SelecionarVerificaItem
    \/ SelecionarEscolhe
    \/ SelecionarMaisProximo

SpecSel == InitSel /\ [][NextSel]_vars

InitTray ==
    /\ pc = "est_inicio"
    /\ chamadas = <<>>
    /\ tray_url_ok \in BOOLEAN
    /\ tray_token_ok \in BOOLEAN
    /\ est_cd \in CODIGOS_TRAY
    /\ est_resposta = Nenhum
    /\ est_retorno = Nenhum
    /\ SelParado
    /\ GeoParado
    /\ FreteParado
    /\ PrecoParado

NextTray ==
    \/ EstoqueSemConfiguracao
    \/ EstoqueConsulta

SpecTray == InitTray /\ [][NextTray]_vars

\* join: the items, each a sequence of fields, written as one encoding
RECURSIVE juntar(_, _)
juntar(partes, sep) ==
    IF partes = <<>> THEN <<>>
    ELSE IF Len(partes) = 1 THEN partes[1]
    ELSE partes[1] \o <<sep>> \o juntar(Tail(partes), sep)

\* Fields of the two items of the documented example
ITEM_A == <<<<"1","0">>, <<"5">>, <<"2">>, <<"0",".","1">>, <<"2">>, <<"3",".","5">>,
            <<"A">>, <<"9","9",".","9","0">>>>

ITEM_B == <<<<"1">>, <<"1">>, <<"1">>, <<"0",".","0","1">>, <<"1">>, <<"0",".","5">>,
            <<"B">>, <<"1","0",".","0","0">>>>

\* Items an encoding is made of: well formed, with too few or too many fields,
\* and with a numeric field that does not convert
ItensPedido ==
    {ITEM_A, ITEM_B,
     [ITEM_B EXCEPT ![7] = <<>>],                          \* empty codigo
     [ITEM_A EXCEPT ![5] = <<" ","3"," ">>],               \* blanks around a number
     [ITEM_B EXCEPT ![5] = <<"0">>, ![6] = <<"-","1">>],   \* zero quantity, negative weight
     Append(ITEM_A, <<"x">>),                              \* nine fields
     SubSeq(ITEM_A, 1, 7),                                 \* seven fields
     <<<<"x">>>>,                                          \* one field
     <<<<>>>>,                                             \* the empty item
     [ITEM_A EXCEPT ![5] = <<"1",".","5">>],               \* int('1.5')
     [ITEM_B EXCEPT ![6] = <<"x">>],                       \* float('x')
     [ITEM_A EXCEPT ![8] = <<>>],                          \* float('')
     [ITEM_B EXCEPT ![1] = <<"1",".","2",".","3">>]}       \* float('1.2.3')

\* Order encodings of up to MaxItensPedido items
Pedidos ==
    {juntar([i \in DOMAIN it |-> juntar(it[i], ";")], "/") :
        it \in SeqsAte(ItensPedido, MaxItensPedido)}

InitParse ==
    /\ pc \in {"parse_direto", "frete_inicio"}
    /\ chamadas = <<>>
    /\ tray_url_ok = FALSE
    /\ tray_token_ok = FALSE
    /\ TrayParado
    /\ SelParado
    /\ cep \in Ceps
    /\ municipio = <<>>
    /\ uf = ""
    /\ codigo_ibge = 0
    /\ resp_viacep = Nenhum
    /\ resp_municipios = Nenhum
    /\ resp_coord = Nenhum
    /\ coord_destino = Nenhum
    /\ prods \in Pedidos
    /\ resposta = "nenhuma"
    /\ PrecoParado

NextParse ==
    \/ ParseDireto
    \/ FreteValida
    \/ FreteParse

SpecParse == InitParse /\ [][NextParse]_vars

\* Arguments of calcular_valor_frete: distances in 0.1 km, weights in 0.01 kg,
\* volumes in 0.01 m3, rates in tenths
DistanciasPreco == {Num(n) : n \in {0, 10, 1000, 4336, 5000}}

PesosPreco == {Num(n) : n \in {0, 750, 1000, 5000, -30000}} \cup {NaN}

VolumesPreco == {Num(n) : n \in {0, 21, 100, 250, -2000}} \cup {NaN}

TaxasPreco == {Nenhum} \cup {Num(n) : n \in {70, 5, 0, -10}}

TaxasPadrao == {Num(70), Num(35)}

InitPreco ==
    /\ pc = "preco_inicio"
    /\ chamadas = <<>>
    /\ tray_url_ok = FALSE
    /\ tray_token_ok = FALSE
    /\ TrayParado
    /\ SelParado
    /\ GeoParado
    /\ FreteParado
    /\ default_valor_km \in TaxasPadrao
    /\ distancia_km \in DistanciasPreco
    /\ peso_total \in PesosPreco
    /\ volume_total \in VolumesPreco
    /\ valor_km \in TaxasPreco
    /\ valor_frete = Num(0)
    /\ prazo = 0

NextPreco == CalcularValorFrete

SpecPreco == InitPreco /\ [][NextPreco]_vars

\* Distances given to calcular_prazo_entrega, in 0.1 km: around every step,
\* below zero, far away, and NaN
DistanciasPrazo ==
    {Num(n) : n \in {-50, 0, 20000} \cup (990..1010) \cup (2990..3010)
                        \cup (5990..6010) \cup (9990..10010)} \cup {NaN}

InitPrazo ==
    /\ pc = "prazo_inicio"
    /\ chamadas = <<>>
    /\ tray_url_ok = FALSE
    /\ tray_token_ok = FALSE
    /\ TrayParado
    /\ SelParado
    /\ GeoParado
    /\ FreteParado
    /\ default_valor_km = Num(70)
    /\ distancia_km \in DistanciasPrazo
    /\ peso_total = Num(0)
    /\ volume_total = Num(0)
    /\ valor_km = Nenhum
    /\ valor_frete = Num(0)
    /\ prazo = 0

NextPrazo == CalcularPrazoEntrega

SpecPrazo == InitPrazo /\ [][NextPrazo]_vars

\* Requests of the quote endpoint: postal codes, missing, blank and written out
CepsFrete == {<<>>, <<" ">>, <<"6","3","6","6","0","-","0","0","0">>}

\* Order encodings: missing, one item, two items of which one has no codigo,
\* items too short, and a number that does not convert
PedidosFrete ==
    {<<>>,
     juntar(ITEM_A, ";"),
     juntar(<<juntar([ITEM_B EXCEPT ![7] = <<>>], ";"), juntar(ITEM_A, ";")>>, "/"),
     juntar(SubSeq(ITEM_A, 1, 7), ";"),
     juntar(<<juntar(ITEM_A, ";"), juntar([ITEM_B EXCEPT ![6] = <<"x">>], ";")>>, "/")}

InitFrete ==
    /\ pc = "frete_inicio"
    /\ chamadas = <<>>
    /\ tray_url_ok \in BOOLEAN
    /\ tray_token_ok = TRUE
    /\ TrayParado
    /\ SelParado
    /\ cep \in CepsFrete
    /\ municipio = <<>>
    /\ uf = ""
    /\ codigo_ibge = 0
    /\ resp_viacep = Nenhum
    /\ resp_municipios = Nenhum
    /\ resp_coord = Nenhum
    /\ coord_destino = Nenhum
    /\ prods \in PedidosFrete
    /\ resposta = "nenhuma"
    /\ PrecoParado

NextFrete ==
    \/ FreteValida
    \/ FreteParse
    \/ FreteTotais
    \/ GeoViaCep
    \/ GeoMunicipios
    \/ GeoCoordenadas
    \/ FreteDestino
    \/ SelecionarInicio
    \/ SelecionarPulaItem
    \/ SelecionarVerificaItem
    \/ SelecionarEscolhe
    \/ SelecionarMaisProximo
    \/ FreteCota
    \/ FreteExcecao

SpecFrete == InitFrete /\ [][NextFrete]_vars

\* Destinations on a grid of whole degrees that covers the five CDs; at the
\* resolution of the model some of them are equally far from two CDs
LatitudesRanking == {n * FP : n \in {-31, -27, -20, -16, -8, -6, 1, 3}}

LongitudesRanking == {n * FP : n \in {-74, -62, -61, -58, -53, -49, -44, -40}}

InitRanking ==
    /\ pc = "sel_inicio"
    /\ chamadas = <<>>
    /\ tray_url_ok = TRUE
    /\ tray_token_ok = TRUE
    /\ TrayParado
    /\ lat_destino \in {Num(n) : n \in LatitudesRanking}
    /\ lon_destino \in {Num(n) : n \in LongitudesRanking}
    /\ produtos \in {<<i>> : i \in ItensSel}
    /\ distancias = <<>>
    /\ d_idx = 0
    /\ p_idx = 0
    /\ verificacoes = <<>>
    /\ resultado_cd = Nenhum
    /\ GeoParado
    /\ FreteParado
    /\ PrecoParado

NextRanking ==
    \/ SelecionarInicio
    \/ SelecionarPulaItem
    \/ SelecionarVerificaItem
    \/ SelecionarEscolhe
    \/ SelecionarMaisProximo

SpecRanking == InitRanking /\ [][NextRanking]_vars

---------------------------------------------------------------------------
(* Properties of selecionar_melhor_cd *)

\* The stock check answered b for item p at the CD cd
Relatado(cd, p, b) ==
    \E k \in 1..Len(verificacoes) :
        /\ verificacoes[k].cd_id = cd
        /\ verificacoes[k].p = p
        /\ verificacoes[k].disponivel = b

\* Every item of the order that has a codigo was reported available at cd
EstoqueCompleto(cd) ==
    \A p \in 1..Len(produtos) : produtos[p].codigo # <<>> => Relatado(cd, p, TRUE)

\* Some item was reported unavailable at cd
AlgumIndisponivel(cd) == \E p \in 1..Len(produtos) : Relatado(cd, p, FALSE)

\* Distance from the CD to the destination, computed apart from the ranking
DistanciaAte(cd) ==
    haversine(CENTROS_DISTRIBUICAO[cd].lat, CENTROS_DISTRIBUICAO[cd].lon,
              lat_destino.v, lon_destino.v)

\* cd comes before every other CD with complete stock: nearer, or as near and
\* earlier in the catalogue
PrimeiroCompleto(cd) ==
    /\ EstoqueCompleto(cd)
    /\ \A o \in CDS \ {cd} :
          EstoqueCompleto(o) =>
             \/ DistanciaAte(cd) < DistanciaAte(o)
             \/ /\ DistanciaAte(cd) = DistanciaAte(o)
                /\ \E i, j \in 1..Len(ORDEM_CDS) :
                      i < j /\ ORDEM_CDS[i] = cd /\ ORDEM_CDS[j] = o

\* cd is the globally nearest CD
MaisProximo(cd) == \A o \in CDS : DistanciaAte(cd) <= DistanciaAte(o)

\* C1: when some CD has every item with a codigo reported available, the
\* selection returns the first such CD of the ascending-distance ranking, with
\* its distance and tem_estoque = True; an order whose items all have an empty
\* codigo gets the nearest CD with tem_estoque = True.
C1_PrimeiroComEstoque ==
    pc = "sel_fim" =>
       /\ (\E cd \in CDS : EstoqueCompleto(cd)) =>
             /\ resultado_cd.tem_estoque
             /\ PrimeiroCompleto(resultado_cd.cd_id)
             /\ resultado_cd.distancia = DistanciaAte(resultado_cd.cd_id)
       /\ (\A p \in 1..Len(produtos) : produtos[p].codigo = <<>>) =>
             /\ resultado_cd.tem_estoque
             /\ MaisProximo(resultado_cd.cd_id)
             /\ verificacoes = <<>>

\* C1 witness: a nearer CD was refused and a farther one, fully stocked, returned
C1_Witness ==
    /\ pc = "sel_fim"
    /\ resultado_cd.tem_estoque
    /\ ~MaisProximo(resultado_cd.cd_id)
    /\ \E p \in 1..Len(produtos) : produtos[p].codigo = <<>>
    /\ \E p \in 1..Len(produtos) : Relatado(resultado_cd.cd_id, p, TRUE)

\* C2: tem_estoque = False is returned exactly when the stock check reported
\* some item unavailable at each of the five CDs, and then the result is the
\* globally nearest CD, ranking[0], with its own distance.
C2_MaisProximoSemEstoque ==
    pc = "sel_fim" =>
       /\ (\A cd \in CDS : AlgumIndisponivel(cd)) <=> ~resultado_cd.tem_estoque
       /\ ~resultado_cd.tem_estoque =>
             /\ MaisProximo(resultado_cd.cd_id)
             /\ resultado_cd.cd_id = distancias[1].cd_id
             /\ resultado_cd.distancia = DistanciaAte(resultado_cd.cd_id)

\* C2 witness: every CD refused, the nearest one returned without stock
C2_Witness ==
    /\ pc = "sel_fim"
    /\ ~resultado_cd.tem_estoque
    /\ \A cd \in CDS : AlgumIndisponivel(cd)
    /\ Len(verificacoes) >= Cardinality(CDS)

\* C3: selecionar_melhor_cd never raises, whatever coordinate the geocoding
\* step hands to it and whatever the order and the stock check.
C3_NuncaLevanta == pc # "sel_excecao"

\* C3, second half: whenever it returns, it names a CD of the catalogue
C3_RetornaCdDoCatalogo ==
    pc = "sel_fim" => resultado_cd.tipo = "cd" /\ resultado_cd.cd_id \in CDS

---------------------------------------------------------------------------
(* Properties of verificar_estoque_tray *)

\* The stock figure the function reads from the product record, if any
CampoLido(r, cd_codigo) ==
    IF campo_estoque(cd_codigo) \in DOMAIN r.produto THEN campo_estoque(cd_codigo)
    ELSE IF "stock" \in DOMAIN r.produto THEN "stock"
    ELSE "nenhum"

\* C4: verificar_estoque_tray always returns a boolean; it returns True on a
\* timeout or network error, a non-200 answer, a missing URL or token (and
\* then no request is made), a product that is not found and a product record
\* without stock field; False comes only from a stock figure that was read.
C4_FalhaAberta ==
    pc = "est_fim" =>
       /\ est_retorno.tipo = "bool"
       /\ (~tray_url_ok \/ ~tray_token_ok) => est_retorno.v /\ chamadas = <<>>
       /\ (tray_url_ok /\ tray_token_ok) =>
             /\ chamadas = <<"tray">>
             /\ est_resposta.tipo # "http" => est_retorno.v
             /\ est_resposta.status # 200 => est_retorno.v
             /\ est_resposta.corpo # "produto" => est_retorno.v
             /\ (est_resposta.corpo = "produto"
                   /\ CampoLido(est_resposta, est_cd) = "nenhum") => est_retorno.v
       /\ ~est_retorno.v =>
             /\ est_resposta.tipo = "http"
             /\ est_resposta.status = 200
             /\ est_resposta.corpo = "produto"
             /\ CampoLido(est_resposta, est_cd) # "nenhum"
             /\ est_resposta.produto[CampoLido(est_resposta, est_cd)].tipo = "num"
             /\ est_resposta.produto[CampoLido(est_resposta, est_cd)].v <= 0

\* C4 witness: False returned from the fallback field stock, the CD's own field absent
C4_Witness ==
    /\ pc = "est_fim"
    /\ ~est_retorno.v
    /\ CampoLido(est_resposta, est_cd) = "stock"

---------------------------------------------------------------------------
(* Properties of buscar_coordenadas_ibge *)

\* No catalogue entry has the resolved name, compared without regard to case
SemCorrespondencia ==
    \A i \in DOMAIN resp_municipios.municipios :
        upper(resp_municipios.municipios[i].nome) # upper(resp_viacep.localidade)

ViaCepRespondeu ==
    /\ resp_viacep.tipo = "http"
    /\ resp_viacep.status = 200
    /\ resp_viacep.corpo = "endereco"

MunicipiosRespondeu ==
    /\ resp_municipios.tipo = "http"
    /\ resp_municipios.status = 200
    /\ resp_municipios.corpo = "lista"

\* C5: when the postal-code lookup and the catalogue call succeed and no entry
\* has the resolved name, the result is the capital's coordinate of the
\* resolved region, tagged with that region, for each of the 27 regions, and
\* the coordinate service is not called.
C5_CapitalSemCorrespondencia ==
    (/\ pc = "geo_fim"
     /\ ViaCepRespondeu
     /\ resp_viacep.localidade # <<>>
     /\ resp_viacep.uf \in UFS
     /\ MunicipiosRespondeu
     /\ SemCorrespondencia)
    => /\ coord_destino.tipo = "coord"
       /\ coord_destino.uf = resp_viacep.uf
       /\ coord_destino.lat = Num(capitais[resp_viacep.uf].lat)
       /\ coord_destino.lon = Num(capitais[resp_viacep.uf].lon)
       /\ chamadas = <<"viacep", "ibge_municipios">>

\* C5 witness: the catalogue holds a name that only starts like the resolved one
C5_Witness ==
    /\ pc = "geo_fim"
    /\ coord_destino.tipo = "coord"
    /\ resp_viacep.uf = "TO"
    /\ MunicipiosRespondeu
    /\ Len(resp_municipios.municipios) = 2
    /\ SemCorrespondencia

\* The coordinate answer has one of the two accepted shapes
FormaAceita == resp_coord.corpo \in {"geometria", "plano", "ambas"}

\* C6: if the postal-code call, the catalogue call or the coordinate call
\* fails, times out or answers non-200, or the postal code is unknown, or the
\* coordinate answer has neither accepted shape, the function returns None.
C6_FalhaSemCapital ==
    pc = "geo_fim" =>
       /\ (resp_viacep.tipo # "http" \/ resp_viacep.status # 200
              \/ resp_viacep.corpo = "erro") => coord_destino = Nenhum
       /\ (resp_municipios # Nenhum
              /\ (resp_municipios.tipo # "http" \/ resp_municipios.status # 200))
             => coord_destino = Nenhum
       /\ (resp_coord # Nenhum
              /\ (resp_coord.tipo # "http" \/ resp_coord.status # 200 \/ ~FormaAceita))
             => coord_destino = Nenhum

\* C6 witness: both lookups succeeded, the coordinate call timed out, None returned
C6_Witness ==
    /\ pc = "geo_fim"
    /\ resp_coord # Nenhum
    /\ resp_coord.tipo = "timeout"
    /\ resp_viacep.uf \in UFS
    /\ coord_destino = Nenhum

---------------------------------------------------------------------------
(* Properties of parse_produtos_tray *)

\* The ';'-separated fields of each '/'-separated item of the encoding
CamposDosItens == [i \in DOMAIN split(prods, "/") |-> split(split(prods, "/")[i], ";")]

\* The items that have eight fields or more, in the order of the encoding
ItensCompletos == SelectSeq(CamposDosItens, LAMBDA c : Len(c) >= 8)

\* The numeric fields of an item all read as numbers
Numerico(c) ==
    /\ \A k \in {1, 2, 3, 4, 6, 8} : float_texto_ok(c[k])
    /\ int_ok(c[5])

\* The parser has run, on its own or inside calcular_frete
ParseFeito == pc \in {"parse_direto_fim", "frete_totais"} \/ resposta = "MalformedOrder"

C8_TudoOuNada ==
    (\E k \in DOMAIN ItensCompletos : ~Numerico(ItensCompletos[k])) =>
       /\ pc = "parse_direto_fim" => produtos = <<>>
       /\ pc # "frete_totais"
       /\ pc = "frete_fim" => produtos = <<>> /\ resposta = "MalformedOrder"

\* C8 witness: a well-formed item, then one whose quantity is '1.5'
C8_Witness ==
    /\ pc = "parse_direto_fim"
    /\ Len(ItensCompletos) = 2
    /\ Numerico(ItensCompletos[1])
    /\ ~int_ok(ItensCompletos[2][5])
    /\ produtos = <<>>

---------------------------------------------------------------------------
(* Properties of calcular_valor_frete *)

\* The rate that applies: the argument, or the configured default without one
TaxaEfetiva == IF valor_km = Nenhum THEN default_valor_km ELSE valor_km

ArgumentosPreco == {distancia_km, peso_total, volume_total, TaxaEfetiva}

\* The arguments are whole km, whole kg and tenths of m3: the product below
\* then stays within the integers that can be computed
ArgumentosInteiros ==
    /\ NaN \notin ArgumentosPreco
    /\ distancia_km.v % 10 = 0
    /\ peso_total.v % 100 = 0
    /\ volume_total.v % 10 = 0

\* distancia * taxa * (1 + (peso / 10) * 0.05) * (1 + volume * 0.10), in cents, times 2000
Produto2000 ==
    (distancia_km.v \div 10) * TaxaEfetiva.v * (200 + peso_total.v \div 100)
        * (100 + volume_total.v \div 10)

\* c is x / 2000 rounded to the nearest integer, a half going to the even one
Arredonda2000(c, x) ==
    /\ 2000 * c - x <= 1000
    /\ x - 2000 * c <= 1000
    /\ (2000 * c - x = 1000 \/ x - 2000 * c = 1000) => c % 2 = 0

\* C9: the value returned is an amount of at least 50.00, whatever the
\* distance, the weight, the volume and the rate.
C9_MinimoCinquenta ==
    pc = "preco_fim" => valor_frete.tipo = "num" /\ valor_frete.v >= 5000

\* On finite arguments the amount is at least 50.00, and it is exactly 50.00
\* for distance 0, weight 0, volume 0
C9_MinimoArgumentosFinitos ==
    (pc = "preco_fim" /\ NaN \notin ArgumentosPreco) =>
       /\ valor_frete.tipo = "num"
       /\ valor_frete.v >= 5000
       /\ (distancia_km.v = 0 /\ peso_total.v = 0 /\ volume_total.v = 0)
             => valor_frete.v = 5000

\* C10: the amount is max(distance * rate * (1 + (weight / 10) * 0.05)
\* * (1 + volume * 0.10), 50.00) rounded to 2 decimals, the rate being the
\* configured default when none is passed; 100 km, 10 kg, 1 m3 at 7.0 give 808.50.
C10_Formula ==
    pc = "preco_fim" =>
       /\ ArgumentosInteiros =>
             /\ valor_frete.tipo = "num"
             /\ IF Produto2000 < 5000 * 2000
                THEN valor_frete.v = 5000
                ELSE Arredonda2000(valor_frete.v, Produto2000)
       /\ (/\ distancia_km = Num(1000)
           /\ peso_total = Num(1000)
           /\ volume_total = Num(100)
           /\ TaxaEfetiva = Num(70)) => valor_frete = Num(80850)

\* C10 witness: the documented example, with the rate taken from the default
C10_Witness ==
    /\ pc = "preco_fim"
    /\ distancia_km = Num(1000)
    /\ peso_total = Num(1000)
    /\ volume_total = Num(100)
    /\ valor_km = Nenhum
    /\ default_valor_km = Num(70)
    /\ valor_frete = Num(80850)

---------------------------------------------------------------------------
(* Properties of calcular_prazo_entrega *)

\* The step function of the specification, on a distance in 0.1 km
PrazoEsperado(n) ==
    IF n <= 1000 THEN 3
    ELSE IF n <= 3000 THEN 5
    ELSE IF n <= 6000 THEN 7
    ELSE IF n <= 10000 THEN 10
    ELSE 15

\* C11: the lead time is a step function with inclusive upper bounds (<= 100 km
\* gives 3, <= 300 gives 5, <= 600 gives 7, <= 1000 gives 10, otherwise 15), it
\* never decreases when the distance grows, and it is one of 3, 5, 7, 10, 15.
C11_PrazoDegraus ==
    pc = "prazo_fim" =>
       /\ prazo \in {3, 5, 7, 10, 15}
       /\ distancia_km.tipo = "num" =>
             /\ prazo = PrazoEsperado(distancia_km.v)
             /\ \A d \in DistanciasPrazo :
                   (d.tipo = "num" /\ d.v <= distancia_km.v)
                      => calcular_prazo_entrega(d) <= prazo
       /\ distancia_km = Num(1000) => prazo = 3
       /\ distancia_km = Num(1001) => prazo = 5
       /\ distancia_km = Num(3000) => prazo = 5
       /\ distancia_km = Num(3001) => prazo = 7
       /\ distancia_km = Num(6000) => prazo = 7
       /\ distancia_km = Num(6001) => prazo = 10
       /\ distancia_km = Num(10000) => prazo = 10
       /\ distancia_km = Num(10001) => prazo = 15

\* C11 witness: exactly 600 km still gives 7 days
C11_Witness == pc = "prazo_fim" /\ distancia_km = Num(6000) /\ prazo = 7

---------------------------------------------------------------------------
(* Properties of calcular_frete *)

FalhasEstruturadas ==
    {"MissingPostalCode", "MissingOrder", "MalformedOrder", "GeoLookupFailed"}

\* A successful quote: a catalogue CD, an amount and a lead time
CotacaoCompleta ==
    /\ resposta = "cotacao"
    /\ resultado_cd # Nenhum
    /\ resultado_cd.cd_id \in CDS
    /\ valor_frete.tipo = "num"
    /\ prazo \in {3, 5, 7, 10, 15}

\* The order parsed to at least one item and the geocoding returned a resolution
PedidoEDestinoResolvidos == produtos # <<>> /\ coord_destino # Nenhum

\* C12: every request ends in a successful quote or in one of the four
\* structured failures, and it ends in a successful quote whenever the order
\* parsed to at least one item and the geocoding succeeded.
C12_UmDesfecho ==
    pc = "frete_fim" =>
       /\ CotacaoCompleta \/ resposta \in FalhasEstruturadas
       /\ PedidoEDestinoResolvidos => CotacaoCompleta

\* With numeric coordinates from the geocoder the request ends as C12 says
C12_DesfechoComCoordenadasNumericas ==
    (pc = "frete_fim" /\ lat_destino.tipo = "num" /\ lon_destino.tipo = "num") =>
       /\ CotacaoCompleta \/ resposta \in FalhasEstruturadas
       /\ PedidoEDestinoResolvidos => CotacaoCompleta

---------------------------------------------------------------------------
(* Properties of the line items *)

\* C13: every line item the parser produces has a quantity of at least 1, a
\* weight per unit of at least 0 and a unit value of at least 0.
C13_ItensValidos ==
    ParseFeito =>
       \A i \in DOMAIN produtos :
          /\ produtos[i].quantidade >= 1
          /\ produtos[i].peso >= 0
          /\ produtos[i].valor >= 0

\* What the parser does guarantee: eight fields or more were read and the
\* numbers are the conversions of their texts, whatever their sign
C13_ItensConvertidos ==
    ParseFeito =>
       \A i \in DOMAIN produtos :
          \E c \in {CamposDosItens[k] : k \in DOMAIN CamposDosItens} :
             /\ Len(c) >= 8
             /\ int_ok(c[5])
             /\ produtos[i] = produto_de(c)

---------------------------------------------------------------------------
(* Properties of the coordinate step of buscar_coordenadas_ibge *)

\* The coordinate service answered with status 200
CoordenadasRespondeu ==
    /\ pc = "geo_fim"
    /\ resp_coord # Nenhum
    /\ resp_coord.tipo = "http"
    /\ resp_coord.status = 200

\* The nested shape: geometria.coordenadas holds a pair
FormaAninhada ==
    resp_coord.corpo \in {"geometria", "ambas"} /\ Len(resp_coord.geometria) = 2

\* The flat shape alone: latitude and longitude fields holding numbers
FormaPlana ==
    /\ resp_coord.corpo = "plano"
    /\ resp_coord.plano[1].tipo \in {"num", "texto_num"}
    /\ resp_coord.plano[2].tipo \in {"num", "texto_num"}

\* The resolution carries the municipality and region of the postal code and
\* the code of the first catalogue entry with that name
ResolucaoIdentificada ==
    /\ coord_destino # Nenhum
    /\ coord_destino.municipio = resp_viacep.localidade
    /\ coord_destino.uf = resp_viacep.uf
    /\ \E i \in DOMAIN resp_municipios.municipios :
          /\ upper(resp_municipios.municipios[i].nome) = upper(resp_viacep.localidade)
          /\ \A j \in 1..(i - 1) :
                upper(resp_municipios.municipios[j].nome) # upper(resp_viacep.localidade)
          /\ coord_destino.codigo_ibge = Num(resp_municipios.municipios[i].id)

\* C14: on a 200 answer of the coordinate service two shapes are accepted, the
\* nested pair read as [longitude, latitude] and the flat latitude/longitude
\* fields; the resolution then carries that latitude and longitude with the
\* municipality, the region and the code; an answer with neither shape fails.
C14_DuasFormas ==
    CoordenadasRespondeu =>
       /\ FormaAninhada =>
             /\ ResolucaoIdentificada
             /\ coord_destino.lon = resp_coord.geometria[1]
             /\ coord_destino.lat = resp_coord.geometria[2]
       /\ FormaPlana =>
             /\ ResolucaoIdentificada
             /\ coord_destino.lon = Num(resp_coord.plano[1].v)
             /\ coord_destino.lat = Num(resp_coord.plano[2].v)
       /\ resp_coord.corpo \in {"outra", "json_invalido"} => coord_destino = Nenhum
       /\ coord_destino # Nenhum => FormaAninhada \/ FormaPlana

\* C14 witness: a nested pair whose first element, the longitude, differs from
\* the second
C14_Witness ==
    /\ CoordenadasRespondeu
    /\ resp_coord.corpo = "geometria"
    /\ resp_coord.geometria = <<Num(-402925), Num(-60014)>>
    /\ coord_destino # Nenhum
    /\ coord_destino.lat = Num(-60014)
    /\ coord_destino.lon = Num(-402925)

---------------------------------------------------------------------------
(* Properties of calcular_distancias_cds *)

\* Position of a CD in the catalogue
PosicaoNoCatalogo(cd) == CHOOSE i \in DOMAIN ORDEM_CDS : ORDEM_CDS[i] = cd

\* The ranking was built
RankingFeito == pc \in {"sel_laco", "sel_fim"}

\* C15: the ranking has exactly one entry for each of the five catalogue CDs,
\* with its distance to the destination, in ascending order of distance, and
\* CDs at the same distance stay in catalogue order (RS, SC, MG, MS, CE).
C15_RankingEstavel ==
    RankingFeito =>
       /\ Len(distancias) = 5
       /\ \A cd \in CDS : \E i \in DOMAIN distancias : distancias[i].cd_id = cd
       /\ \A i \in DOMAIN distancias :
             distancias[i].distancia = DistanciaAte(distancias[i].cd_id)
       /\ \A i, j \in DOMAIN distancias :
             i < j =>
                \/ distancias[i].distancia < distancias[j].distancia
                \/ /\ distancias[i].distancia = distancias[j].distancia
                   /\ PosicaoNoCatalogo(distancias[i].cd_id)
                         < PosicaoNoCatalogo(distancias[j].cd_id)

\* C15 witness: two CDs are at the same distance of the destination, and the
\* nearest CD is not the first of the catalogue
C15_Witness ==
    /\ RankingFeito
    /\ \E i \in 1..4 : distancias[i].distancia = distancias[i + 1].distancia
    /\ distancias[1].cd_id # "RS"

---------------------------------------------------------------------------
(* Order of the external calls of buscar_coordenadas_ibge *)

ORDEM_CHAMADAS_GEO == <<"viacep", "ibge_municipios", "ibge_coordenadas">>

\* The answer of the k-th call let the function go on to the next one
ChamadaBemSucedida(k) ==
    IF k = 1
    THEN ViaCepRespondeu /\ resp_viacep.localidade # <<>> /\ resp_viacep.uf # ""
    ELSE IF k = 2
    THEN MunicipiosRespondeu /\ ~SemCorrespondencia
    ELSE resp_coord.tipo = "http" /\ resp_coord.status = 200

\* The answer of the k-th call is a failure: no answer, or a status other than 200
ChamadaFalhou(k) ==
    LET r == <<resp_viacep, resp_municipios, resp_coord>>[k]
    IN  r # Nenhum /\ (r.tipo # "http" \/ r.status # 200)

\* C16: the postal-code call, the catalogue call and the coordinate call are
\* issued at most once each, in that order, each only after the previous one
\* succeeded, the coordinate call only after a municipality matched; the first
\* failed or timed-out call is the last call of the resolution.
C16_ChamadasEmSequencia ==
    /\ Len(chamadas) <= 3
    /\ chamadas = SubSeq(ORDEM_CHAMADAS_GEO, 1, Len(chamadas))
    /\ \A k \in 1..3 :
          /\ Len(chamadas) > k => ChamadaBemSucedida(k)
          /\ ChamadaFalhou(k) => (Len(chamadas) = k /\ pc = "geo_fim")
    /\ pc = "geo_fim" => Len(chamadas) >= 1

\* C16 witness: the catalogue call timed out after the postal code was
\* resolved, and the coordinate call was not issued
C16_Witness ==
    /\ pc = "geo_fim"
    /\ resp_municipios # Nenhum
    /\ resp_municipios.tipo = "timeout"
    /\ chamadas = <<"viacep", "ibge_municipios">>
    /\ resp_coord = Nenhum

---------------------------------------------------------------------------
(* Order of the stock checks of selecionar_melhor_cd *)

\* Position of a CD in the ranking
PosicaoNoRanking(cd) == CHOOSE i \in DOMAIN distancias : distancias[i].cd_id = cd

\* C17: stock checks go CD by CD from the nearest to the farthest and item by
\* item in order; an item reported unavailable is the last one checked at its
\* CD, no CD after the returned fully stocked one is checked, and an item with
\* an empty codigo is never checked.
C17_VerificacoesEmOrdem ==
    /\ \A k \in DOMAIN verificacoes :
          /\ verificacoes[k].codigo # <<>>
          /\ verificacoes[k].codigo = produtos[verificacoes[k].p].codigo
    /\ verificacoes # <<>> => PosicaoNoRanking(verificacoes[1].cd_id) = 1
    /\ \A k \in 1..(Len(verificacoes) - 1) :
          LET a == verificacoes[k]
              b == verificacoes[k + 1]
          IN  IF a.disponivel
              THEN a.cd_id = b.cd_id /\ a.p < b.p
              ELSE PosicaoNoRanking(b.cd_id) = PosicaoNoRanking(a.cd_id) + 1
    /\ \A k \in DOMAIN verificacoes :
          \A j \in 1..(verificacoes[k].p - 1) :
             produtos[j].codigo # <<>> =>
                \E i \in 1..(k - 1) :
                   /\ verificacoes[i].cd_id = verificacoes[k].cd_id
                   /\ verificacoes[i].p = j
                   /\ verificacoes[i].disponivel
    /\ (pc = "sel_fim" /\ resultado_cd.tem_estoque) =>
          \A k \in DOMAIN verificacoes :
             PosicaoNoRanking(verificacoes[k].cd_id)
                <= PosicaoNoRanking(resultado_cd.cd_id)

\* C17 witness: the first item is unavailable at the nearest CD, the second
\* item is not checked there, and the second CD, fully stocked, is returned
C17_Witness ==
    /\ pc = "sel_fim"
    /\ resultado_cd.tem_estoque
    /\ Len(produtos) = 2
    /\ Len(verificacoes) = 3
    /\ verificacoes[1].p = 1 /\ ~verificacoes[1].disponivel
    /\ verificacoes[2].p = 1 /\ verificacoes[3].p = 2
    /\ PosicaoNoRanking(resultado_cd.cd_id) = 2

---------------------------------------------------------------------------
(* Order of the validation of calcular_frete *)

FalhasDeValidacao == {"MissingPostalCode", "MissingOrder", "MalformedOrder"}

\* The request is still being validated
EmValidacao == pc \in {"frete_inicio", "frete_parse", "frete_totais"}

\* What holds in every state: no external call and no stock check before the
\* validation has passed, nor when it has failed; a stock check only with a
\* resolved destination
SemChamadaAntesDeValidar ==
    /\ (EmValidacao \/ resposta \in FalhasDeValidacao) =>
          /\ chamadas = <<>>
          /\ verificacoes = <<>>
          /\ coord_destino = Nenhum
    /\ resposta \in {"MissingPostalCode", "MissingOrder"} => produtos = <<>>
    /\ chamadas # <<>> => (produtos # <<>> /\ produtos = parse_produtos_tray(prods))
    /\ verificacoes # <<>> =>
          /\ coord_destino # Nenhum
          /\ Len(chamadas) >= 2
          /\ chamadas[1] = "viacep"

\* What holds of every step: the postal code is looked at first, then the
\* order, and the order is parsed only after both were found
ValidaNaOrdem ==
    /\ pc = "frete_inicio" =>
          /\ resposta' = IF cep = <<>> THEN "MissingPostalCode"
                         ELSE IF prods = <<>> THEN "MissingOrder"
                         ELSE resposta
          /\ produtos' = produtos
    /\ produtos' # produtos => (pc = "frete_parse" /\ cep # <<>> /\ prods # <<>>)
    /\ (resposta' = "MalformedOrder" /\ resposta # "MalformedOrder") =>
          (pc = "frete_parse" /\ parse_produtos_tray(prods) = <<>>)
    /\ chamadas' # chamadas => ~EmValidacao
    /\ verificacoes' # verificacoes => coord_destino # Nenhum

\* C18: the postal code is validated first, then the presence of the order,
\* then its parsing, then the geocoding, then the stock checks: a missing
\* postal code gives MissingPostalCode whatever the order, a missing order
\* gives MissingOrder before any parsing, a malformed order gives
\* MalformedOrder before any geocoding call, no external call precedes the
\* validation, and stock is checked only after the geocoding succeeded.
C18_ValidacaoEmOrdem == []SemChamadaAntesDeValidar /\ [][ValidaNaOrdem]_vars

\* C18 witness: the postal code is missing and the order malformed; the answer
\* is MissingPostalCode and nothing was called
C18_Witness ==
    /\ pc = "frete_fim"
    /\ cep = <<>>
    /\ prods # <<>>
    /\ parse_produtos_tray(prods) = <<>>
    /\ resposta = "MissingPostalCode"
    /\ chamadas = <<>>

============================================================================
